---- MODULE Spec2Model ----
(***************************************************************************)
(* Model of src/downloaders.py: MediaDownloader.download_post and          *)
(* MediaDownloadHelper, run by a pool of concurrent workers that share the *)
(* success counter and the download directory.                             *)
(*                                                                         *)
(* Strings are sequences of tokens (a URL is <<host, name, extension>>);   *)
(* a file is known by its path and its size in chunks.  File semantics are *)
(* POSIX: removing a path another worker holds open leaves that worker     *)
(* writing to an unlinked file.                                            *)
(***************************************************************************)
EXTENDS Integers, Sequences, FiniteSets, TLC

\* ------------------------------------------------------------- bounds
NumWorkers == 2
max_posts_download == 2
MaxChunks == 1

Workers == 1..NumWorkers

\* ------------------------------------------------------------- values
None == <<>>
NoDomain == "None"
NoPreview == <<"absent">>
BadPreview == <<"malformed">>

UrlDirect == <<"i.redd.it/", "x", ".jpg">>
UrlGifv == <<"i.imgur.com/", "a", ".gifv">>
UrlPng == <<"i.imgur.com/", "b", ".png">>
UrlGifvInside == <<"i.imgur.com/", "c", ".gifv", "_old", ".png">>
UrlGifvWord == <<"i.imgur.com/", "gifv", ".jpg">>
UrlSlug == <<"gfycat.com/", "slug">>
UrlClip == <<"redgifs.com/", "clip">>
UrlOther == <<"unknown.com/", "y", ".png">>
PreviewA == <<"preview.redd.it/", "p1", ".jpg">>
PreviewB == <<"preview.redd.it/", "p2", ".jpg">>

\* post_details as handed to download_post; isDict = FALSE is a value that
\* is no mapping (its .get raises).
MkPost(d, u, t, pv) == [isDict |-> TRUE, domain |-> d, url |-> u, title |-> t, preview |-> pv]
PDirect == MkPost("i.redd.it", UrlDirect, "cat", PreviewA)
PImgur == MkPost("i.imgur.com", UrlGifv, "dog", NoPreview)
PImgurPng == MkPost("i.imgur.com", UrlPng, "pic", NoPreview)
PImgurInside == MkPost("i.imgur.com", UrlGifvInside, "pic", NoPreview)
PImgurWord == MkPost("i.imgur.com", UrlGifvWord, "pic", NoPreview)
PGfycat == MkPost("gfycat.com", UrlSlug, "dog", BadPreview)
PRedgifs == MkPost("redgifs.com", UrlClip, "dog", PreviewA)
PUnknown == MkPost("unknown.com", UrlOther, "cat", NoPreview)
PUnknownPreview == MkPost("unknown.com", UrlOther, "cat", PreviewB)
PNoDomain == MkPost(NoDomain, UrlDirect, "cat", PreviewA)
PNoUrl == MkPost("i.redd.it", None, "cat", PreviewA)
PNotDict == [isDict |-> FALSE, domain |-> NoDomain, url |-> None, title |-> "None", preview |-> NoPreview]
NoPost == [isDict |-> FALSE, domain |-> NoDomain, url |-> None, title |-> "", preview |-> NoPreview]

Posts ==
    {PDirect, PImgur, PImgurPng, PImgurInside, PImgurWord, PGfycat, PRedgifs,
     PUnknown, PUnknownPreview, PNoDomain, PNoUrl, PNotDict}

\* The batches of posts a run of the pool is given: posts of one title share
\* the files they can name, posts of different titles share only the counter.
Batches ==
    {{PDirect, PUnknown, PUnknownPreview, PNoDomain, PNoUrl, PNotDict},
     {PImgur, PGfycat}}

\* Batches that exercise the per-host handlers: each i.imgur.com URL, and the
\* two hosts that need a slug lookup.
HostBatches ==
    {{PImgur}, {PImgurPng}, {PImgurInside}, {PImgurWord}, {PGfycat}, {PRedgifs}}

\* ------------------------------------------------------ pure functions
\* the quota never taken as reached
QuotaReachedNever(c) == FALSE

\* the quota test off by one: `>` for `>=`
QuotaReachedStrict(c) == c > max_posts_download

\* line 44: the quota test on the value read from the shared counter
QuotaReached(c) == c >= max_posts_download

\* the field test with `and` for `or`
FieldsMissingBoth(p) == p.domain = NoDomain /\ p.url = None

\* line 52
FieldsMissing(p) == p.domain = NoDomain \/ p.url = None

\* the dispatch with the direct handler as its default
DispatchDefaultDirect(domain) ==
    CASE domain = "gfycat.com" -> "gfycat"
      [] domain = "i.imgur.com" -> "imgur"
      [] domain = "redgifs.com" -> "redgifs"
      [] OTHER -> "ireddit"

\* lines 93-99: domain_mappings.get(domain, do_nothing)
Dispatch(domain) ==
    CASE domain = "gfycat.com" -> "gfycat"
      [] domain = "i.imgur.com" -> "imgur"
      [] domain = "i.redd.it" -> "ireddit"
      [] domain = "redgifs.com" -> "redgifs"
      [] OTHER -> "do_nothing"

\* 'gifv' in media_url: substring test, token by token
HasGifv(url) == \E i \in 1..Len(url) : url[i] \in {"gifv", ".gifv"}

\* media_url.replace('.gifv', '.mp4'): every occurrence
ReplaceGifv(url) == [i \in 1..Len(url) |-> IF url[i] = ".gifv" THEN ".mp4" ELSE url[i]]

\* lines 151-152
ImgurUrl(url) == IF HasGifv(url) THEN ReplaceGifv(url) ELSE url

\* utils.get_gfycat_redgif_url when the lookup finds the slug
LookupUrl(url) == <<"cdn/", url[Len(url)], ".mp4">>

\* utils.construct_local_filename(title, download_url): title + name of the URL
ConstructLocalFilename(title, url) == <<title>> \o Tail(url)

\* utils.construct_local_filename(title, file_suffix='.jpg')
ConstructPreviewFilename(title) == <<title, ".jpg">>

\* lines 211-215: None when there is no usable preview
HasPreview(p) == p.preview \notin {NoPreview, BadPreview}

\* the per-host handlers without their try/except
CatchesAboveHost(frame) == frame # "host"

\* download_post without its own try/except
CatchesBelowTop(frame) == frame # "download_post"

\* every `except Exception` of the file catches whatever is raised below it
Catches(frame) == TRUE

\* the try blocks around each raising site, innermost first
CallStack(site, fb) ==
    CASE site = "fields" -> <<"download_post">>
      [] site = "lookup" -> <<"host", "download", "download_post">>
      [] site = "preview" -> <<"_attempt_naive_preview_download", "download", "download_post">>
      [] site = "transfer" /\ ~fb ->
            <<"_core_download", "_download_to_local_file", "host", "download", "download_post">>
      [] site = "transfer" /\ fb ->
            <<"_core_download", "_attempt_naive_preview_download", "download", "download_post">>

\* the frame whose handler runs for an exception raised at site
Handler(site, fb) ==
    LET st == CallStack(site, fb)
        idx == {i \in 1..Len(st) : Catches(st[i])}
    IN IF idx = {} THEN "caller"
       ELSE st[CHOOSE i \in idx : \A j \in idx : i <= j]

\* where control continues after the handler of frame h has run
LandingPc(h) ==
    CASE h = "_core_download" -> "VALIDATING"
      [] h \in {"_download_to_local_file", "host"} -> "FALLBACK_RESOLVING"
      [] h \in {"_attempt_naive_preview_download", "download"} -> "REPORTING"
      [] h = "download_post" -> "DONE_FAILURE"
      [] OTHER -> "ESCAPED"

\* lines 99, 129-188: the handler of the post's domain resolves the URL to
\* fetch.  o is what the slug lookup of gfycat/redgifs does.
LookupOutcomes(p) ==
    IF Dispatch(p.domain) \in {"gfycat", "redgifs"} THEN {"found", "none", "raise"}
    ELSE {"found"}

ResolvedUrl(p, o) ==
    LET h == Dispatch(p.domain)
    IN CASE h = "do_nothing" -> None
         [] h = "ireddit" -> p.url
         [] h = "imgur" -> ImgurUrl(p.url)
         [] OTHER -> IF o = "found" THEN LookupUrl(p.url) ELSE None

\* every path a post of the model can name
AllPaths ==
    {ConstructLocalFilename(p.title, ResolvedUrl(p, "found")) :
        p \in {q \in Posts : q.url # None /\ Dispatch(q.domain) # "do_nothing"}}
    \cup {ConstructPreviewFilename(p.title) : p \in {q \in Posts : HasPreview(q)}}

Terminal == {"SKIPPED", "MALFORMED", "DONE_SUCCESS", "DONE_FAILURE"}


\* --------------------------------------------------------------- state
VARIABLES
    batch,                      \* the posts the pool is given in this run
    count,                      \* global_counter: the shared success count
    files,                      \* paths that exist in local_download_dir
    size,                       \* size in chunks of each existing path
    pc,                         \* each worker's position in download_post
    post,                       \* post_details of the running invocation
    fallback,                   \* inside _attempt_naive_preview_download's branch
    download_url,               \* URL handed to _core_download
    local_filename,             \* path handed to _core_download, None if none
    written,                    \* chunks this worker wrote through its open file
    linked,                     \* the open file is still the one at the path
    download_successful,        \* download(): download_successful
    naive_download_successful,  \* download(): naive_download_successful
    log                         \* what the running invocation has done so far

vars == <<batch, count, files, size, pc, post, fallback, download_url, local_filename,
          written, linked, download_successful, naive_download_successful, log>>

Phases == {"primary", "fallback"}
Phase(w) == IF fallback[w] THEN "fallback" ELSE "primary"

NotRead == 0 - 1

EmptyLog ==
    [observed |-> NotRead, resolved |-> FALSE, unresolved |-> FALSE,
     previewRead |-> FALSE, naiveCalls |-> 0,
     fetched |-> {}, skipped |-> {}, created |-> {}, deleted |-> {},
     validated |-> {}, valid |-> {}, emptySeen |-> {}, failed |-> {}, partial |-> {},
     repeat |-> "no", orphan |-> {}, complete |-> {},
     raised |-> {}, handledBy |-> {}, incCalls |-> 0, incremented |-> FALSE]

\* lines 23-35: the pool starts on the posts of B with an empty directory
Start(B) ==
    /\ batch = B
    /\ count = 0
    /\ files = {}
    /\ size = [f \in AllPaths |-> 0]
    /\ pc = [w \in Workers |-> "START"]
    /\ post = [w \in Workers |-> NoPost]
    /\ fallback = [w \in Workers |-> FALSE]
    /\ download_url = [w \in Workers |-> None]
    /\ local_filename = [w \in Workers |-> None]
    /\ written = [w \in Workers |-> 0]
    /\ linked = [w \in Workers |-> FALSE]
    /\ download_successful = [w \in Workers |-> FALSE]
    /\ naive_download_successful = [w \in Workers |-> FALSE]
    /\ log = [w \in Workers |-> EmptyLog]

Init == \E B \in Batches : Start(B)

LogAdd(w, field, x) == [log EXCEPT ![w][field] = @ \cup {x}]

\* ------------------------------------------------------------- actions
Intact(f) == f \in files /\ size[f] > 0

\* Whether calling p now repeats this worker's previous call, which succeeded
\* and whose output file is intact: on its primary path, or on the fallback.
RepeatKind(w, p) ==
    IF pc[w] = "DONE_SUCCESS" /\ post[w] = p /\ local_filename[w] # None
       /\ Intact(local_filename[w])
    THEN Phase(w)
    ELSE "no"

\* The path whose file the repeated call of w relies on.
RepeatPath(w) ==
    IF log[w].repeat = "fallback" THEN ConstructPreviewFilename(post[w].title)
    ELSE IF log[w].repeat = "primary"
         THEN ConstructLocalFilename(post[w].title, ResolvedUrl(post[w], "found"))
    ELSE None

\* A worker of the pool is handed the next post: download_post(post_details).
Call(w, p) ==
    /\ pc[w] \in {"START"} \cup Terminal
    /\ pc' = [pc EXCEPT ![w] = "QUOTA_CHECK"]
    /\ post' = [post EXCEPT ![w] = p]
    /\ fallback' = [fallback EXCEPT ![w] = FALSE]
    /\ download_url' = [download_url EXCEPT ![w] = None]
    /\ local_filename' = [local_filename EXCEPT ![w] = None]
    /\ written' = [written EXCEPT ![w] = 0]
    /\ linked' = [linked EXCEPT ![w] = FALSE]
    /\ download_successful' = [download_successful EXCEPT ![w] = FALSE]
    /\ naive_download_successful' = [naive_download_successful EXCEPT ![w] = FALSE]
    /\ log' = [log EXCEPT ![w] = [EmptyLog EXCEPT !.repeat = RepeatKind(w, p)]]
    /\ UNCHANGED <<batch, count, files, size>>

\* the field test made before the quota test
QuotaCheckPcFieldsFirst(c, p) ==
    IF ~p.isDict THEN LandingPc(Handler("fields", FALSE))
    ELSE IF FieldsMissing(p) THEN "MALFORMED"
    ELSE IF QuotaReached(c) THEN "SKIPPED"
    ELSE "RESOLVING"

\* lines 44-53: read the counter, then the fields of the post
QuotaCheckPc(c, p) ==
    IF QuotaReached(c) THEN "SKIPPED"
    ELSE IF ~p.isDict THEN LandingPc(Handler("fields", FALSE))
    ELSE IF FieldsMissing(p) THEN "MALFORMED"
    ELSE "RESOLVING"

QuotaCheck(w) ==
    /\ pc[w] = "QUOTA_CHECK"
    /\ pc' = [pc EXCEPT ![w] = QuotaCheckPc(count, post[w])]
    /\ log' = [log EXCEPT ![w].observed = count,
                          ![w].raised = IF ~QuotaReached(count) /\ ~post[w].isDict
                                        THEN @ \cup {"fields"} ELSE @,
                          ![w].handledBy = IF ~QuotaReached(count) /\ ~post[w].isDict
                                           THEN @ \cup {Handler("fields", FALSE)} ELSE @]
    /\ UNCHANGED <<batch, count, files, size, post, fallback, download_url, local_filename,
                   written, linked, download_successful, naive_download_successful>>


\* lines 99-100, 133-144: where download() goes on after the handler returned
ResolvePc(p, o) ==
    IF o = "raise" THEN LandingPc(Handler("lookup", FALSE))
    ELSE IF ResolvedUrl(p, o) = None THEN "FALLBACK_RESOLVING"
    ELSE "FETCHING"

Resolve(w) ==
    /\ pc[w] = "RESOLVING"
    /\ \E o \in LookupOutcomes(post[w]) :
        LET u == IF o = "raise" THEN None ELSE ResolvedUrl(post[w], o)
        IN /\ pc' = [pc EXCEPT ![w] = ResolvePc(post[w], o)]
           /\ download_url' = [download_url EXCEPT ![w] = u]
           /\ local_filename' = [local_filename EXCEPT ![w] =
                  IF u = None THEN None ELSE ConstructLocalFilename(post[w].title, u)]
           /\ log' = [log EXCEPT ![w].resolved = TRUE,
                                 ![w].unresolved = u = None,
                                 ![w].raised = IF o = "raise" THEN @ \cup {"lookup"} ELSE @,
                                 ![w].handledBy = IF o = "raise"
                                                  THEN @ \cup {Handler("lookup", FALSE)} ELSE @]
    /\ UNCHANGED <<batch, count, files, size, post, fallback, written, linked,
                   download_successful, naive_download_successful>>

\* the transfer never skipped
AlreadyExistsNever(f) == FALSE

\* line 235: os.path.exists(local_filename)
AlreadyExists(f) == f \in files

\* lines 235-236: skip the transfer when the destination exists
CoreDownloadExists(w) ==
    /\ pc[w] = "FETCHING"
    /\ IF AlreadyExists(local_filename[w])
       THEN /\ pc' = [pc EXCEPT ![w] = "VALIDATING"]
            /\ log' = LogAdd(w, "skipped", Phase(w))
       ELSE /\ pc' = [pc EXCEPT ![w] = "REQUESTING"]
            /\ log' = log
    /\ UNCHANGED <<batch, count, files, size, post, fallback, download_url, local_filename,
                   written, linked, download_successful, naive_download_successful>>

\* An exception of the transfer: the innermost catching frame decides where
\* download() goes on and whether it still holds a file name.
RaiseTransfer(w) ==
    LET h == Handler("transfer", fallback[w])
    IN /\ pc' = [pc EXCEPT ![w] = LandingPc(h)]
       /\ local_filename' = [local_filename EXCEPT ![w] =
              IF h = "_core_download" THEN @ ELSE None]
       /\ log' = [log EXCEPT ![w].raised = @ \cup {"transfer"},
                             ![w].handledBy = @ \cup {h},
                             ![w].fetched = @ \cup {Phase(w)},
                             ![w].failed = @ \cup {Phase(w)},
                             ![w].partial = IF pc[w] = "WRITING" /\ written[w] > 0
                                            THEN @ \cup {Phase(w)} ELSE @]

\* lines 239-241, failing: no connection, or raise_for_status on a non-2xx status
CoreDownloadRefused(w) ==
    /\ pc[w] = "REQUESTING"
    /\ RaiseTransfer(w)
    /\ UNCHANGED <<batch, count, files, size, post, fallback, download_url,
                   written, linked, download_successful, naive_download_successful>>

\* lines 239-241: the response is 2xx and open(local_filename, 'wb') creates
\* or truncates the destination
CoreDownloadOpen(w) ==
    /\ pc[w] = "REQUESTING"
    /\ pc' = [pc EXCEPT ![w] = "WRITING"]
    /\ files' = files \cup {local_filename[w]}
    /\ size' = [size EXCEPT ![local_filename[w]] = 0]
    /\ written' = [written EXCEPT ![w] = 0]
    /\ linked' = [v \in Workers |->
           IF v = w THEN TRUE
           ELSE IF pc[v] = "KILLED" /\ local_filename[v] = local_filename[w] THEN FALSE
           ELSE linked[v]]
    /\ log' = [v \in Workers |->
           IF v = w
           THEN [log[w] EXCEPT !.fetched = @ \cup {Phase(w)},
                               !.created = @ \cup {Phase(w)}]
           ELSE IF RepeatPath(v) = local_filename[w]
           THEN [log[v] EXCEPT !.repeat = "no"]
           ELSE log[v]]
    /\ UNCHANGED <<batch, count, post, fallback, download_url, local_filename,
                   download_successful, naive_download_successful>>

Max(a, b) == IF a >= b THEN a ELSE b

\* lines 242-244: one chunk arrives and is written at this worker's offset
CoreDownloadWrite(w) ==
    /\ pc[w] = "WRITING"
    /\ written[w] < MaxChunks
    /\ written' = [written EXCEPT ![w] = @ + 1]
    /\ size' = IF linked[w]
               THEN [size EXCEPT ![local_filename[w]] = Max(@, written[w] + 1)]
               ELSE size
    /\ UNCHANGED <<batch, count, files, pc, post, fallback, download_url, local_filename,
                   linked, download_successful, naive_download_successful, log>>

\* lines 241-244: the stream ends, the file is closed, _core_download returns
CoreDownloadEnd(w) ==
    /\ pc[w] = "WRITING"
    /\ pc' = [pc EXCEPT ![w] = "VALIDATING"]
    /\ linked' = [linked EXCEPT ![w] = FALSE]
    /\ log' = IF written[w] > 0 THEN LogAdd(w, "complete", Phase(w)) ELSE log
    /\ UNCHANGED <<batch, count, files, size, post, fallback, download_url, local_filename,
                   written, download_successful, naive_download_successful>>

\* lines 242-244, failing: the connection breaks or the disk write fails
CoreDownloadBroken(w) ==
    /\ pc[w] = "WRITING"
    /\ RaiseTransfer(w)
    /\ linked' = [linked EXCEPT ![w] = FALSE]
    /\ UNCHANGED <<batch, count, files, size, post, fallback, download_url,
                   written, download_successful, naive_download_successful>>

\* The file at f is what a terminated worker left behind: it had opened f, was
\* its only writer, and nobody has truncated or removed the file since.
Orphan(f) ==
    /\ f \in files
    /\ \E k \in Workers : pc[k] = "KILLED" /\ local_filename[k] = f /\ linked[k]

\* utils.check_if_empty_and_delete_file: is_empty, for a path that is absent
\* or has zero bytes
IsEmpty(f) == f \notin files \/ size[f] = 0

\* utils.check_if_empty_and_delete_file: a zero-byte file is deleted
Removes(f) == f \in files /\ size[f] = 0

\* the check left out for the preview file
NeedsValidationPrimaryOnly(fb, name) == ~fb /\ name # None

\* lines 103-105 and 112-114: run the check on the file name download() holds
NeedsValidation(fb, name) == name # None

\* the result of the check taken the wrong way round
ValidFromIsEmptyInverted(is_empty) == is_empty

\* line 105 and line 114
ValidFromIsEmpty(is_empty) == ~is_empty

\* the preview tried whatever the primary gave
AfterPrimaryAlwaysFallback(ok) == "FALLBACK_RESOLVING"

\* the primary tried again after a failed validation
AfterPrimaryRetry(ok) == IF ok THEN "REPORTING" ELSE "RESOLVING"

\* download() without its fallback branch
AfterPrimaryNoFallback(ok) == "REPORTING"

\* lines 103-108: report when the primary file is valid, else try the preview
AfterPrimary(ok) == IF ok THEN "REPORTING" ELSE "FALLBACK_RESOLVING"

Validate(w) ==
    LET f == local_filename[w]
        checked == NeedsValidation(fallback[w], f)
        is_empty == IsEmpty(f)
        removed == checked /\ Removes(f)
        ok == IF checked THEN ValidFromIsEmpty(is_empty) ELSE TRUE
    IN /\ pc[w] = "VALIDATING"
       /\ files' = IF removed THEN files \ {f} ELSE files
       /\ linked' = [v \in Workers |->
              IF removed /\ pc[v] \in {"WRITING", "KILLED"} /\ local_filename[v] = f
              THEN FALSE ELSE linked[v]]
       /\ IF fallback[w]
          THEN /\ naive_download_successful' = [naive_download_successful EXCEPT ![w] = ok]
               /\ download_successful' = download_successful
               /\ pc' = [pc EXCEPT ![w] = "REPORTING"]
          ELSE /\ download_successful' = [download_successful EXCEPT ![w] = ok]
               /\ naive_download_successful' = naive_download_successful
               /\ pc' = [pc EXCEPT ![w] = AfterPrimary(ok)]
       /\ log' = [log EXCEPT
              ![w].validated = IF checked THEN @ \cup {Phase(w)} ELSE @,
              ![w].valid = IF checked /\ f \in files /\ size[f] > 0
                           THEN @ \cup {Phase(w)} ELSE @,
              ![w].emptySeen = IF checked /\ f \in files /\ size[f] = 0
                               THEN @ \cup {Phase(w)} ELSE @,
              ![w].deleted = IF removed THEN @ \cup {Phase(w)} ELSE @,
              ![w].orphan = IF checked /\ Phase(w) \in log[w].skipped /\ Orphan(f)
                            THEN @ \cup {Phase(w)} ELSE @]
       /\ UNCHANGED <<batch, count, size, post, fallback, download_url, local_filename, written>>

\* lines 108-110, 206-221: read the preview URL out of the post
FallbackPc(p) ==
    IF p.preview = NoPreview THEN "REPORTING"
    ELSE IF p.preview = BadPreview THEN LandingPc(Handler("preview", TRUE))
    ELSE "FETCHING"

FallbackResolve(w) ==
    LET p == post[w]
    IN /\ pc[w] = "FALLBACK_RESOLVING"
       /\ fallback' = [fallback EXCEPT ![w] = TRUE]
       /\ pc' = [pc EXCEPT ![w] = FallbackPc(p)]
       /\ download_url' = [download_url EXCEPT ![w] =
              IF HasPreview(p) THEN p.preview ELSE None]
       /\ local_filename' = [local_filename EXCEPT ![w] =
              IF HasPreview(p) THEN ConstructPreviewFilename(p.title) ELSE None]
       /\ written' = [written EXCEPT ![w] = 0]
       /\ log' = [log EXCEPT
              ![w].previewRead = HasPreview(p),
              ![w].naiveCalls = @ + 1,
              ![w].raised = IF p.preview = BadPreview THEN @ \cup {"preview"} ELSE @,
              ![w].handledBy = IF p.preview = BadPreview
                               THEN @ \cup {Handler("preview", TRUE)} ELSE @]
       /\ UNCHANGED <<batch, count, files, size, post, linked,
                      download_successful, naive_download_successful>>

\* line 116 with `and` for `or`
OverallBoth(primary, naive) == primary /\ naive

\* line 116
Overall(primary, naive) == primary \/ naive

\* every attempt reported as a success
ReportedFlagAlways(returned) == TRUE

\* line 61: the flag handed to increment_counter is what download() returned
ReportedFlag(returned) == returned

\* global_counter.increment_counter(download_successful)
IncrementCounter(c, succeeded) == IF succeeded THEN c + 1 ELSE c

\* lines 60-61, 116-117: download() returns and the outcome is reported
Report(w) ==
    LET flag == Overall(download_successful[w], naive_download_successful[w])
    IN /\ pc[w] = "REPORTING"
       /\ count' = IncrementCounter(count, ReportedFlag(flag))
       /\ pc' = [pc EXCEPT ![w] = IF flag THEN "DONE_SUCCESS" ELSE "DONE_FAILURE"]
       /\ log' = [log EXCEPT ![w].incCalls = @ + 1,
                             ![w].incremented = count' # count]
       /\ UNCHANGED <<batch, files, size, post, fallback, download_url, local_filename, written,
                      linked, download_successful, naive_download_successful>>

Next ==
    \E w \in Workers :
        \/ \E p \in batch : Call(w, p)
        \/ QuotaCheck(w)
        \/ Resolve(w)
        \/ CoreDownloadExists(w)
        \/ CoreDownloadRefused(w)
        \/ CoreDownloadOpen(w)
        \/ CoreDownloadWrite(w)
        \/ CoreDownloadEnd(w)
        \/ CoreDownloadBroken(w)
        \/ Validate(w)
        \/ FallbackResolve(w)
        \/ Report(w)

Spec == Init /\ [][Next]_vars

InitHosts == \E B \in HostBatches : Start(B)

SpecHosts == InitHosts /\ [][Next]_vars

\* ------------------------------------------------------- scheduling
\* What worker w does inside an invocation.  Every call the invocation makes
\* returns, so a step of it that can be taken is eventually taken; the chunk
\* loop of lines 242-244 ends because the response is finite (MaxChunks).
Step(w) ==
    \/ QuotaCheck(w)
    \/ Resolve(w)
    \/ CoreDownloadExists(w)
    \/ CoreDownloadRefused(w)
    \/ CoreDownloadOpen(w)
    \/ CoreDownloadWrite(w)
    \/ CoreDownloadEnd(w)
    \/ CoreDownloadBroken(w)
    \/ Validate(w)
    \/ FallbackResolve(w)
    \/ Report(w)

FairBatches == {{PImgur, PUnknownPreview, PNoUrl, PNotDict}}

InitFair == \E B \in FairBatches : Start(B)

SpecFair == InitFair /\ [][Next]_vars /\ \A w \in Workers : WF_vars(Step(w))

\* The state of the per-post state machine the invocation of w is in.  The
\* transfer (exists-test, request, chunk loop) is FETCHING; between the last
\* validation, or a preview that could not be read, and the return of
\* download() the invocation is still in that state; line 53 returns a failure.
State(w) ==
    CASE pc[w] \in {"FETCHING", "REQUESTING", "WRITING"} ->
            IF fallback[w] THEN "FALLBACK_FETCHING" ELSE "FETCHING"
      [] pc[w] = "VALIDATING" ->
            IF fallback[w] THEN "FALLBACK_VALIDATING" ELSE "VALIDATING"
      [] pc[w] = "REPORTING" ->
            IF ~fallback[w] THEN "VALIDATING"
            ELSE IF local_filename[w] = None THEN "FALLBACK_RESOLVING"
            ELSE "FALLBACK_VALIDATING"
      [] pc[w] = "MALFORMED" -> "DONE_FAILURE"
      [] OTHER -> pc[w]

Ended == {"SKIPPED", "DONE_SUCCESS", "DONE_FAILURE"}

\* a worker that has returned is handed its next post
NextCall == {<<s, "QUOTA_CHECK">> : s \in {"START"} \cup Ended}

\* ------------------------------------------- external termination
\* The worker process is terminated from outside while it is inside the
\* `with open(...)` block of _core_download: no handler of the invocation
\* runs, the file stays as it is, the invocation never returns.
Kill(w) ==
    /\ pc[w] = "WRITING"
    /\ pc' = [pc EXCEPT ![w] = "KILLED"]
    /\ linked' = [linked EXCEPT ![w] =
           @ /\ ~\E v \in Workers \ {w} :
                    pc[v] = "WRITING" /\ linked[v] /\ local_filename[v] = local_filename[w]]
    /\ UNCHANGED <<batch, count, files, size, post, fallback, download_url, local_filename,
                   written, download_successful, naive_download_successful, log>>

CrashBatches == {{PImgur}, {PUnknownPreview}}

InitCrash == \E B \in CrashBatches : Start(B)

NextCrash == Next \/ \E w \in Workers : Kill(w)

SpecCrash == InitCrash /\ [][NextCrash]_vars


\* ------------------------------------------------------------- claims
PassedQuota(w) == log[w].observed # NotRead /\ log[w].observed < max_posts_download
Recognized == {"gfycat.com", "i.imgur.com", "i.redd.it", "redgifs.com"}
NothingDone(w) ==
    /\ ~log[w].resolved
    /\ ~log[w].previewRead
    /\ log[w].fetched = {}
    /\ log[w].created = {}
    /\ log[w].deleted = {}
    /\ log[w].incCalls = 0
    /\ ~log[w].incremented

\* C1: with NumWorkers workers the shared success count never exceeds
\* max_posts_download by more than NumWorkers - 1.
C1_SoftCapBound == count <= max_posts_download + NumWorkers - 1

\* the overshoot is reached: every worker passed the check before any reported
C1_Witness == count = max_posts_download + NumWorkers - 1 /\ NumWorkers > 1

\* C2: an invocation whose quota check reads a count >= max_posts_download
\* ends SKIPPED having resolved nothing, transferred nothing, created or
\* deleted no file and never called increment_counter.
C2_SkipHasNoEffect ==
    \A w \in Workers :
        (log[w].observed # NotRead /\ log[w].observed >= max_posts_download)
            => (pc[w] = "SKIPPED" /\ NothingDone(w))

C2_Witness ==
    \E w \in Workers :
        /\ pc[w] = "SKIPPED"
        /\ log[w].observed >= max_posts_download
        /\ post[w] = PDirect

\* C3: an invocation that passed the quota check with domain and url present
\* calls increment_counter exactly once, when download() has returned; the
\* flag it passes is true exactly when the primary or the fallback validation
\* found an existing non-empty file, and the count moves only with a true flag.
C3_ReportedOnce ==
    \A w \in Workers :
        (PassedQuota(w) /\ post[w].isDict
         /\ post[w].domain # NoDomain /\ post[w].url # None)
            => /\ pc[w] \notin {"SKIPPED", "MALFORMED"}
               /\ (pc[w] \in Terminal => log[w].incCalls = 1)
               /\ (pc[w] \notin Terminal => log[w].incCalls = 0 /\ ~log[w].incremented)
               /\ (pc[w] = "DONE_SUCCESS" <=> (pc[w] \in Terminal /\ log[w].valid # {}))
               /\ (log[w].incremented <=> pc[w] = "DONE_SUCCESS")

C3_Witness ==
    \E w \in Workers :
        /\ pc[w] = "DONE_SUCCESS"
        /\ log[w].valid = {"fallback"}
        /\ log[w].incCalls = 1
        /\ log[w].incremented

\* C4 as stated: a zero-byte primary file and a preview URL in the metadata
\* always end in DONE_SUCCESS after the preview is fetched.
ZeroBytePrimary(w) ==
    /\ HasPreview(post[w])
    /\ "primary" \in log[w].created
    /\ "primary" \in log[w].emptySeen

C4_AsStated ==
    \A w \in Workers :
        (ZeroBytePrimary(w) /\ pc[w] \in Terminal)
            => (pc[w] = "DONE_SUCCESS" /\ "fallback" \in log[w].fetched)

\* C4 amended: when the primary transfer created the file and its validation
\* finds it with zero bytes, and the metadata holds a preview URL, the file is
\* deleted, the preview URL is read and its fetch attempted (a transfer, or a
\* skip when the preview destination exists), and the invocation ends in
\* DONE_SUCCESS exactly when the preview destination is present and non-empty
\* at its validation, else in DONE_FAILURE.
C4_FallbackAfterZeroByte ==
    \A w \in Workers :
        ZeroBytePrimary(w)
            => /\ "primary" \in log[w].deleted
               /\ ~download_successful[w]
               /\ pc[w] \notin {"SKIPPED", "MALFORMED"}
               /\ (pc[w] \in Terminal
                     => /\ log[w].previewRead
                        /\ "fallback" \in (log[w].fetched \cup log[w].skipped)
                        /\ "fallback" \in log[w].validated
                        /\ (pc[w] = "DONE_SUCCESS" <=> "fallback" \in log[w].valid))

C4_Witness ==
    \E w \in Workers :
        /\ ZeroBytePrimary(w)
        /\ pc[w] = "DONE_SUCCESS"
        /\ "fallback" \in log[w].created
        /\ download_url[w] = post[w].preview

\* C5: whenever the primary transfer fails, the primary is not counted as
\* successful (download() goes on to the preview).
C5_FailedPrimaryNotSuccessful ==
    \A w \in Workers :
        "primary" \in log[w].failed => ~download_successful[w]

\* C6: a post with an unrecognized host and no preview section ends in
\* DONE_FAILURE with no transfer, no file created and no count increment.
C6_UnknownHostNoPreview ==
    \A w \in Workers :
        (PassedQuota(w) /\ post[w].isDict /\ post[w].url # None
         /\ post[w].domain \notin Recognized \cup {NoDomain}
         /\ post[w].preview = NoPreview)
            => /\ pc[w] \in {"RESOLVING", "FALLBACK_RESOLVING", "REPORTING", "DONE_FAILURE"}
               /\ log[w].fetched = {}
               /\ log[w].skipped = {}
               /\ log[w].created = {}
               /\ ~log[w].incremented

C6_Witness ==
    \E w \in Workers :
        /\ post[w] = PUnknown
        /\ pc[w] = "DONE_FAILURE"
        /\ log[w].incCalls = 1


\* C7 as stated: a second call on the same post, the first call's output file
\* intact, makes no transfer for the primary URL and ends as the first did.
C7_AsStated ==
    \A w \in Workers :
        log[w].repeat # "no"
            => /\ "primary" \notin log[w].fetched
               /\ (pc[w] \in Terminal => pc[w] = "DONE_SUCCESS")

\* C7 amended: when the previous call on the same post ended DONE_SUCCESS on
\* its primary file, that file is intact, and the second call passes the quota
\* check and resolves its URL again, the second call makes no network
\* transfer and creates no file, skips because the destination exists, still
\* validates the file, and ends in DONE_SUCCESS.
C7_IdempotentRepeat ==
    \A w \in Workers :
        (log[w].repeat = "primary" /\ PassedQuota(w) /\ ~log[w].unresolved)
            => /\ log[w].fetched = {}
               /\ log[w].created = {}
               /\ log[w].deleted = {}
               /\ ~log[w].previewRead
               /\ pc[w] \in {"RESOLVING", "FETCHING", "VALIDATING", "REPORTING", "DONE_SUCCESS"}
               /\ (pc[w] \in {"VALIDATING", "REPORTING", "DONE_SUCCESS"}
                     => log[w].skipped = {"primary"})
               /\ (pc[w] \in {"REPORTING", "DONE_SUCCESS"}
                     => log[w].validated = {"primary"} /\ log[w].valid = {"primary"})

C7_Witness ==
    \E w \in Workers :
        /\ log[w].repeat = "primary"
        /\ pc[w] = "DONE_SUCCESS"
        /\ log[w].skipped = {"primary"}
        /\ log[w].validated = {"primary"}
        /\ log[w].fetched = {}

C9_MalformedAbandoned ==
    \A w \in Workers :
        (PassedQuota(w) /\ post[w].isDict
         /\ (post[w].domain = NoDomain \/ post[w].url = None))
            => (pc[w] = "MALFORMED" /\ NothingDone(w))

C9_Witness ==
    \E w \in Workers :
        /\ pc[w] = "MALFORMED"
        /\ post[w] = PNoDomain
        /\ \E v \in Workers : pc[v] = "MALFORMED" /\ post[v] = PNoUrl

\* C10: a zero-byte file is on disk only while an invocation that opened it,
\* or is about to validate it, is still running: once the invocations naming a
\* path have returned, the path is absent or holds a non-empty file.
C10_NoZeroByteLeft ==
    \A f \in files :
        size[f] = 0
            => \E w \in Workers :
                  /\ local_filename[w] = f
                  /\ pc[w] \in {"WRITING", "VALIDATING"}

C10_Witness ==
    \E w \in Workers :
        /\ pc[w] \in Terminal
        /\ log[w].created = Phases
        /\ log[w].deleted = Phases
        /\ \A v \in Workers : pc[v] \in Terminal
        /\ files = {}

\* C11 as stated: a later call that finds the file a terminated worker left
\* behind skips the transfer and ends in DONE_SUCCESS.
C11_AsStated ==
    \A w \in Workers :
        (log[w].orphan # {} /\ pc[w] \in Terminal) => pc[w] = "DONE_SUCCESS"

\* C11 amended: when a worker was terminated inside a transfer and left a
\* non-empty incomplete file, a later call that names the same path skips the
\* transfer because the file exists, starts no transfer and creates no file
\* for that path, its validation accepts the incomplete file, and it ends in
\* DONE_SUCCESS with the count incremented.  (A file left with zero bytes is
\* deleted by the validation instead.)
C11_IncompleteFileAccepted ==
    \A w \in Workers : \A ph \in log[w].orphan :
        /\ ph \in log[w].skipped
        /\ ph \notin log[w].fetched \cup log[w].created
        /\ ph \in log[w].emptySeen <=> ph \in log[w].deleted
        /\ ph \notin log[w].emptySeen
              => /\ ph \in log[w].valid
                 /\ pc[w] \in {"REPORTING", "DONE_SUCCESS"}
                 /\ Overall(download_successful[w], naive_download_successful[w])
                 /\ (pc[w] = "DONE_SUCCESS" => log[w].incremented)

C11_Witness ==
    \E w \in Workers : \E k \in Workers :
        /\ pc[k] = "KILLED"
        /\ post[k] = post[w]
        /\ local_filename[k] = local_filename[w]
        /\ log[w].orphan = {"primary"}
        /\ log[w].fetched = {}
        /\ pc[w] = "DONE_SUCCESS"
        /\ log[w].incremented

\* C12: a post of the direct-media host i.redd.it whose URL is reachable (the
\* transfer delivers the content and ends normally) is fetched from the input
\* URL unchanged, ends in DONE_SUCCESS, and its destination file is non-empty
\* when download_post returns.
DirectReachable(w) ==
    /\ post[w].isDict
    /\ post[w].domain = "i.redd.it"
    /\ "primary" \in log[w].complete

C12_DirectHostSucceeds ==
    \A w \in Workers :
        DirectReachable(w)
            => /\ (~fallback[w] => download_url[w] = post[w].url)
               /\ pc[w] \in {"VALIDATING", "REPORTING", "DONE_SUCCESS"}
               /\ (pc[w] = "REPORTING" => Intact(local_filename[w]))

\* C13: an i.imgur.com URL that ends in .gifv is fetched with that extension
\* rewritten to .mp4, and every other i.imgur.com URL is fetched unchanged.
C13_ExtensionRewritten ==
    \A w \in Workers :
        LET url == post[w].url
            n == Len(url)
        IN (post[w].isDict /\ post[w].domain = "i.imgur.com" /\ url # None
            /\ log[w].resolved /\ ~fallback[w])
              => download_url[w] = IF url[n] = ".gifv"
                                   THEN SubSeq(url, 1, n - 1) \o <<".mp4">>
                                   ELSE url

\* C14 as stated: an invocation moves only along START -> QUOTA_CHECK ->
\* {SKIPPED | RESOLVING -> FETCHING -> VALIDATING -> {DONE_SUCCESS |
\* FALLBACK_RESOLVING -> FALLBACK_FETCHING -> FALLBACK_VALIDATING ->
\* {DONE_SUCCESS | DONE_FAILURE}}}.
C14_AsStated ==
    [][\A w \in Workers :
          State(w)' # State(w)
            => <<State(w), State(w)'>> \in NextCall \cup
                  {<<"QUOTA_CHECK", "SKIPPED">>, <<"QUOTA_CHECK", "RESOLVING">>,
                   <<"RESOLVING", "FETCHING">>, <<"FETCHING", "VALIDATING">>,
                   <<"VALIDATING", "DONE_SUCCESS">>, <<"VALIDATING", "FALLBACK_RESOLVING">>,
                   <<"FALLBACK_RESOLVING", "FALLBACK_FETCHING">>,
                   <<"FALLBACK_FETCHING", "FALLBACK_VALIDATING">>,
                   <<"FALLBACK_VALIDATING", "DONE_SUCCESS">>,
                   <<"FALLBACK_VALIDATING", "DONE_FAILURE">>}]_vars

\* C14 amended: every invocation terminates in exactly one of SKIPPED,
\* DONE_SUCCESS, DONE_FAILURE, and moves only along START -> QUOTA_CHECK ->
\* {SKIPPED | DONE_FAILURE | RESOLVING}, RESOLVING -> {FETCHING -> VALIDATING |
\* FALLBACK_RESOLVING}, VALIDATING -> {DONE_SUCCESS | FALLBACK_RESOLVING},
\* FALLBACK_RESOLVING -> {DONE_FAILURE | FALLBACK_FETCHING ->
\* FALLBACK_VALIDATING -> {DONE_SUCCESS | DONE_FAILURE}}.
C14_TerminatesOnPath ==
    /\ [][\A w \in Workers :
            State(w)' # State(w)
              => <<State(w), State(w)'>> \in NextCall \cup
                    {<<"QUOTA_CHECK", "SKIPPED">>, <<"QUOTA_CHECK", "DONE_FAILURE">>,
                     <<"QUOTA_CHECK", "RESOLVING">>,
                     <<"RESOLVING", "FETCHING">>, <<"RESOLVING", "FALLBACK_RESOLVING">>,
                     <<"FETCHING", "VALIDATING">>,
                     <<"VALIDATING", "DONE_SUCCESS">>, <<"VALIDATING", "FALLBACK_RESOLVING">>,
                     <<"FALLBACK_RESOLVING", "DONE_FAILURE">>,
                     <<"FALLBACK_RESOLVING", "FALLBACK_FETCHING">>,
                     <<"FALLBACK_FETCHING", "FALLBACK_VALIDATING">>,
                     <<"FALLBACK_VALIDATING", "DONE_SUCCESS">>,
                     <<"FALLBACK_VALIDATING", "DONE_FAILURE">>}]_vars
    /\ \A w \in Workers : (State(w) = "QUOTA_CHECK") ~> (State(w) \in Ended)

C14_Witness ==
    \E w \in Workers : \E v \in Workers :
        /\ State(w) = "DONE_FAILURE"
        /\ log[w].unresolved
        /\ log[w].fetched = {"fallback"}
        /\ State(v) = "SKIPPED"

\* C15: within one invocation _attempt_naive_preview_download runs at most
\* once, only after the primary gave no file name or its validation failed,
\* and never when the primary validation found a valid file: then no preview
\* URL is read and nothing is fetched or created for the preview.
C15_FallbackOnceAfterFailure ==
    \A w \in Workers :
        /\ log[w].naiveCalls <= 1
        /\ (fallback[w] <=> log[w].naiveCalls = 1)
        /\ log[w].naiveCalls = 1
              => \/ log[w].unresolved
                 \/ ("primary" \in log[w].validated /\ "primary" \notin log[w].valid)
        /\ "fallback" \in (log[w].fetched \cup log[w].skipped \cup log[w].created)
              => log[w].naiveCalls = 1 /\ log[w].previewRead
        /\ "primary" \in log[w].valid
              => /\ log[w].naiveCalls = 0
                 /\ ~log[w].previewRead
                 /\ "fallback" \notin (log[w].fetched \cup log[w].skipped \cup log[w].created)

C15_Witness ==
    \E w \in Workers : \E v \in Workers :
        /\ pc[w] = "DONE_SUCCESS"
        /\ "primary" \in log[w].validated
        /\ "primary" \notin log[w].valid
        /\ log[w].naiveCalls = 1
        /\ "fallback" \in log[w].created
        /\ pc[v] = "DONE_SUCCESS"
        /\ "primary" \in log[v].valid
        /\ log[v].naiveCalls = 0

\* C16: the quota is a soft cap.  The count goes beyond max_posts_download,
\* and does so only by the report of a worker whose quota check had read a
\* count below the maximum that other workers' successes have since overtaken
\* (several workers passed the check before any of them recorded its success).
C16_OvershootByStaleRead ==
    [][(count' # count /\ count' > max_posts_download)
          => \E w \in Workers :
                /\ pc[w] = "REPORTING"
                /\ pc'[w] = "DONE_SUCCESS"
                /\ log[w].observed < max_posts_download
                /\ log[w].observed < count]_vars

C16_Witness ==
    /\ NumWorkers >= 2
    /\ count > max_posts_download
    /\ \A w \in Workers : pc[w] \in Terminal
    /\ \E w \in Workers : \E v \in Workers \ {w} :
          /\ pc[w] = "DONE_SUCCESS" /\ log[w].incremented
          /\ pc[v] = "DONE_SUCCESS" /\ log[v].incremented
          /\ PassedQuota(w) /\ PassedQuota(v)
          /\ log[w].observed = log[v].observed

\* C17: the count never decreases; it changes only by +1, in the reporting
\* step of an invocation that ends in DONE_SUCCESS; every invocation that ends
\* in DONE_SUCCESS adds one and an invocation that ends skipped, malformed or
\* failed adds nothing.  The count starts at 0, so at every moment, and when
\* all workers are idle, it is the number of invocations that have ended in
\* DONE_SUCCESS.
C17_CountIsSuccesses ==
    [][/\ count' >= count
       /\ count' # count
             => /\ count' = count + 1
                /\ \E w \in Workers : pc[w] = "REPORTING" /\ pc'[w] = "DONE_SUCCESS"
       /\ \A w \in Workers :
             pc'[w] # pc[w]
               => /\ pc'[w] = "DONE_SUCCESS" => count' = count + 1
                  /\ pc'[w] \in {"SKIPPED", "MALFORMED", "DONE_FAILURE"} => count' = count
                  /\ pc[w] # "REPORTING" => count' = count]_vars

C17_Witness ==
    /\ \A w \in Workers : pc[w] \in Terminal
    /\ count = max_posts_download
    /\ \E w \in Workers : \E v \in Workers :
          /\ pc[w] = "DONE_SUCCESS" /\ log[w].incremented /\ log[w].observed = count - 1
          /\ pc[v] = "DONE_FAILURE" /\ log[v].incCalls = 1 /\ ~log[v].incremented

\* C18: for gfycat.com and redgifs.com, when the slug lookup returns None or
\* raises, no primary transfer is started (nor skipped, nor validated) and no
\* primary file is created, an exception of the lookup is handled inside the
\* host's handler, and download() goes on to the preview.
SlugHost(p) == p.isDict /\ p.url # None /\ Dispatch(p.domain) \in {"gfycat", "redgifs"}

C18_LookupFailureFallsBack ==
    \A w \in Workers :
        (SlugHost(post[w]) /\ log[w].unresolved)
            => /\ "primary" \notin (log[w].fetched \cup log[w].created
                                      \cup log[w].skipped \cup log[w].validated)
               /\ pc[w] # "ESCAPED"
               /\ "lookup" \in log[w].raised
                     => /\ "host" \in log[w].handledBy
                        /\ log[w].handledBy \cap {"download", "download_post", "caller"} = {}
               /\ pc[w] = "FALLBACK_RESOLVING" \/ log[w].naiveCalls = 1

C18_Witness ==
    \E w \in Workers : \E v \in Workers :
        /\ post[w].domain = "redgifs.com"
        /\ log[w].unresolved
        /\ "lookup" \in log[w].raised
        /\ log[w].created = {"fallback"}
        /\ pc[w] = "DONE_SUCCESS"
        /\ log[v].unresolved
        /\ log[v].raised = {}
        /\ log[v].naiveCalls = 1

\* C19: two distinct posts (different preview URLs) that both take the
\* fallback path never name the same destination file.
C19_FallbackPathsDistinct ==
    \A w \in Workers : \A v \in Workers \ {w} :
        (fallback[w] /\ fallback[v]
         /\ local_filename[w] # None /\ local_filename[v] # None
         /\ post[w].preview # post[v].preview)
            => local_filename[w] # local_filename[v]

\* C20: when two workers name the same destination path, the exists-test and
\* the zero-byte validation of one never remove the file the other has open
\* and is writing, nor a file the other has validated: once all workers are
\* idle, every invocation that ended in DONE_SUCCESS has its file on disk,
\* non-empty.
C20_NoInterference ==
    /\ \A w \in Workers : pc[w] = "WRITING" => linked[w]
    /\ (\A v \in Workers : pc[v] \in {"START"} \cup Terminal)
          => \A w \in Workers : pc[w] = "DONE_SUCCESS" => Intact(local_filename[w])

====
